---- MODULE Spec2Model ----
(***************************************************************************)
(* Model of dataset/dent.py: CocoDataset.resize_image, resize_mask and     *)
(* __getitem__.  Arrays are modelled by their spatial shape and the list   *)
(* of operations applied to them; the label map built by __getitem__ is    *)
(* modelled cell by cell.  Scale factors are exact rationals <<num, den>>. *)
(***************************************************************************)
EXTENDS Integers, Sequences, FiniteSets, TLC

(* ------------------------------ bounds --------------------------------- *)
\* sides of the images passed to resize_image are 1 .. MaxSide
MaxSide == 3
\* resize_mask is applied at most MaxMaskCalls times to one geometry
MaxMaskCalls == 2
\* the annotation store holds at most MaxImages images
MaxImages == 1
\* an image has at most MaxAnns annotations
MaxAnns == 2

(* ------------------------- program constants --------------------------- *)
\* Python's None for the optional integer arguments min_dim and max_dim
None == -1
\* pad64 pads both sides to a multiple of 64
PadMultiple == 64
\* __getitem__ calls resize_image with min_dim = max_dim = 1024
ItemMinDim == 1024
ItemMaxDim == 1024
\* the number of colour channels after convert('RGB')
Channels == 3
\* the length of the list classes; category ids are 1 .. NumClasses - 1
NumClasses == 4

\* Python's None for the optional rational argument min_scale
NoScale == <<0, 0>>
\* Python's None for crop
NoCrop == <<>>

Modes == {"none", "square", "pad64", "crop"}

(* --------------------------- arithmetic -------------------------------- *)
Min(a, b) == IF a <= b THEN a ELSE b
Max(a, b) == IF a >= b THEN a ELSE b

RECURSIVE GCD(_, _)
GCD(a, b) == IF b = 0 THEN a ELSE GCD(b, a % b)

\* a rational in lowest terms
Norm(s) == LET g == GCD(s[1], s[2]) IN <<s[1] \div g, s[2] \div g>>

\* s < t for rationals with positive denominators
Less(s, t) == s[1] * t[2] < t[1] * s[2]

\* Python 3 round(n / d): to the nearest integer, ties to the even one
Round(n, d) ==
    LET q == n \div d
        r == n % d
    IN  IF 2 * r < d THEN q
        ELSE IF 2 * r > d THEN q + 1
        ELSE IF q % 2 = 0 THEN q ELSE q + 1

\* round(x * scale)
Scaled(x, s) == Round(x * s[1], s[2])

\* truth value of an optional integer / rational argument
Truthy(x) == x # None /\ x # 0
TruthyScale(s) == s # NoScale /\ s[1] # 0

(* ------------------------------ arrays --------------------------------- *)
\* an array: its spatial shape and the operations that produced its content
Array(h, w, ops) == [shape |-> <<h, w>>, ops |-> ops]
NoArray == Array(0, 0, <<"absent">>)
NoWindow == <<0, 0, 0, 0>>
ZeroPadding == <<<<0, 0>>, <<0, 0>>, <<0, 0>>>>

(* --------------------------- resize_image ------------------------------ *)
\* scale after "Scale?": max(1, min_dim / min(h, w)), raised to min_scale
ScaleUp(h, w, min_dim, min_scale) ==
    LET s1 == IF Truthy(min_dim)
              THEN (IF min_dim > Min(h, w) THEN <<min_dim, Min(h, w)>> ELSE <<1, 1>>)
              ELSE <<1, 1>>
    IN  IF TruthyScale(min_scale) /\ Less(s1, min_scale) THEN min_scale ELSE s1

\* variant: the cap applied whatever the mode
CapScaleAnyMode(s, h, w, max_dim, mode) ==
    LET image_max == Max(h, w)
    IN  IF Truthy(max_dim) /\ Scaled(image_max, s) > max_dim
        THEN <<max_dim, image_max>>
        ELSE s

\* scale after "Does it exceed max dim?"
CapScale(s, h, w, max_dim, mode) ==
    LET image_max == Max(h, w)
    IN  IF Truthy(max_dim) /\ mode = "square" /\ Scaled(image_max, s) > max_dim
        THEN <<max_dim, image_max>>
        ELSE s

ComputeScale(h, w, min_dim, max_dim, min_scale, mode) ==
    Norm(CapScale(ScaleUp(h, w, min_dim, min_scale), h, w, max_dim, mode))

\* variant: the larger half of the padding put first
SplitPadCeil(target, dim) ==
    LET before == (target - dim + 1) \div 2
    IN  <<before, target - dim - before>>

\* (before, after) padding that brings dim to target
SplitPad(target, dim) ==
    LET before == (target - dim) \div 2
    IN  <<before, target - dim - before>>

\* variant: a side that is a multiple of 64 already is padded by 64 more
Pad64Always(dim) == SplitPad(dim - (dim % PadMultiple) + PadMultiple, dim)

\* pad64: padding of one side to the next multiple of 64
Pad64(dim) ==
    IF dim % PadMultiple > 0
    THEN SplitPad(dim - (dim % PadMultiple) + PadMultiple, dim)
    ELSE <<0, 0>>

\* np.pad rejects negative pad widths
PadOk(padding) == \A i \in 1..Len(padding) : padding[i][1] >= 0 /\ padding[i][2] >= 0

\* variant: the upper end of the draw one too far
CropRangeWide(dim, min_dim) == 0 .. (dim - min_dim + 1)

\* the values random.randint(0, dim - min_dim) can return
CropRange(dim, min_dim) == 0 .. (dim - min_dim)

Failure(e) ==
    [err |-> e, image |-> NoArray, window |-> NoWindow, scale |-> <<0, 1>>,
     padding |-> <<>>, crop |-> NoCrop]

Return(image, window, scale, padding, crop) ==
    [err |-> "none", image |-> image, window |-> window, scale |-> scale,
     padding |-> padding, crop |-> crop]

\* variant: the assertion left out
MinDimUnchecked(min_dim) == TRUE

\* the "Minimum dimension must be a multiple of 64" assertion
MinDimAsserted(min_dim) == min_dim % PadMultiple = 0

\* variant: the default window with height and width exchanged
NoneResultSwapped(ih, iw) ==
    Return(Array(ih, iw, <<>>), <<0, 0, iw, ih>>, <<1, 1>>, ZeroPadding, NoCrop)

\* what mode "none" returns: the image, the default window, scale, padding, crop
NoneResult(ih, iw) ==
    Return(Array(ih, iw, <<>>), <<0, 0, ih, iw>>, <<1, 1>>, ZeroPadding, NoCrop)

\* resize_image on an image of shape (ih, iw); ry, rx are the random draws
\* of crop mode (members of CropRange, unused in the other modes).
\* A resample to a side of 0 is taken to raise in the interpolation step
\* ("ShapeError"); min_dim or max_dim of None raises TypeError where the
\* mode's arithmetic reads it; np.pad raises ValueError on a negative width
\* and random.randint on an empty range.
ResizeImage(ih, iw, min_dim, max_dim, min_scale, mode, ry, rx) ==
    LET scale == ComputeScale(ih, iw, min_dim, max_dim, min_scale, mode)
        h == IF scale # <<1, 1>> THEN Scaled(ih, scale) ELSE ih
        w == IF scale # <<1, 1>> THEN Scaled(iw, scale) ELSE iw
        ops == IF scale # <<1, 1>> THEN <<"resize">> ELSE <<>>
    IN  IF mode = "none"
        THEN NoneResult(ih, iw)
        ELSE IF h < 1 \/ w < 1
        THEN Failure("ShapeError")
        ELSE IF mode = "square"
        THEN IF max_dim = None
             THEN Failure("TypeError")
             ELSE LET tb == SplitPad(max_dim, h)
                      lr == SplitPad(max_dim, w)
                      padding == <<tb, lr, <<0, 0>>>>
                  IN  IF ~PadOk(padding)
                      THEN Failure("ValueError")
                      ELSE Return(Array(h + tb[1] + tb[2], w + lr[1] + lr[2],
                                        ops \o <<"pad", "astype">>),
                                  <<tb[1], lr[1], h + tb[1], w + lr[1]>>,
                                  scale, padding, NoCrop)
        ELSE IF mode = "pad64"
        THEN IF min_dim = None
             THEN Failure("TypeError")
             ELSE IF ~MinDimAsserted(min_dim)
             THEN Failure("AssertionError")
             ELSE LET tb == Pad64(h)
                      lr == Pad64(w)
                      padding == <<tb, lr, <<0, 0>>>>
                  IN  Return(Array(h + tb[1] + tb[2], w + lr[1] + lr[2],
                                   ops \o <<"pad", "astype">>),
                             <<tb[1], lr[1], h + tb[1], w + lr[1]>>,
                             scale, padding, NoCrop)
        ELSE IF mode = "crop"
        THEN IF min_dim = None
             THEN Failure("TypeError")
             ELSE IF CropRange(h, min_dim) = {} \/ CropRange(w, min_dim) = {}
             THEN Failure("ValueError")
             ELSE Return(Array(Min(ry + min_dim, h) - Min(ry, h),
                               Min(rx + min_dim, w) - Min(rx, w),
                               ops \o <<"crop", "astype">>),
                         <<0, 0, min_dim, min_dim>>,
                         scale, ZeroPadding, <<ry, rx, min_dim, min_dim>>)
        ELSE Failure("ModeNotSupported")

(* ---------------------------- resize_mask ------------------------------ *)
\* list.pop(2): the list without its third element
Pop2(padding) == SubSeq(padding, 1, 2) \o SubSeq(padding, 4, Len(padding))

\* variant: the output shape calculated with int() instead of round()
ZoomShapeTrunc(mh, mw, s) == <<(mh * s[1]) \div s[2], (mw * s[1]) \div s[2]>>

\* the output shape of scipy.ndimage.zoom(mask, zoom=[scale, scale]):
\* int(round(dim * zoom)) per axis
ZoomShape(mh, mw, s) == <<Scaled(mh, s), Scaled(mw, s)>>

\* resize_mask on a mask of shape (mh, mw); the result carries the padding
\* list as the call leaves it
ResizeMask(mh, mw, scale, padding, crop) ==
    LET h == ZoomShape(mh, mw, scale)[1]
        w == ZoomShape(mh, mw, scale)[2]
    IN  IF h < 1 \/ w < 1
        THEN [err |-> "ShapeError", mask |-> NoArray, padding |-> padding]
        ELSE IF crop # NoCrop
        THEN [err |-> "none",
              mask |-> Array(Min(crop[1] + crop[3], h) - Min(crop[1], h),
                             Min(crop[2] + crop[4], w) - Min(crop[2], w),
                             <<"zoom", "crop">>),
              padding |-> padding]
        ELSE IF Len(padding) < 3
        THEN [err |-> "IndexError", mask |-> NoArray, padding |-> padding]
        ELSE LET p == Pop2(padding)
             IN  IF Len(p) # 2 \/ ~PadOk(p)
                 THEN [err |-> "ValueError", mask |-> NoArray, padding |-> p]
                 ELSE [err |-> "none",
                       mask |-> Array(h + p[1][1] + p[1][2], w + p[2][1] + p[2][2],
                                      <<"zoom", "pad">>),
                       padding |-> p]

(* ---------------------------- __getitem__ ------------------------------ *)
\* variant: indexing that rejects negative indices
ListPosNonNegative(n, index) == IF 0 <= index /\ index < n THEN index + 1 ELSE 0

\* Python list indexing: the 1-based position index selects in a list of
\* length n, or 0 when it raises IndexError
ListPos(n, index) ==
    IF 0 <= index /\ index < n THEN index + 1
    ELSE IF -n <= index /\ index < 0 THEN n + index + 1
    ELSE 0

Cells(h, w) == (1..h) \X (1..w)

\* annToMask(ann) at a cell
AnnToMask(ann, c) == IF c \in ann.mask THEN 1 ELSE 0

\* the value an annotation writes: its category id in test mode, else step + 1
LabelValue(ann, isTest, stp) == IF isTest THEN ann.category_id ELSE stp + 1

\* variant: an annotation overwrites the cells it covers
CombineOverwrite(mask, ann, isTest, stp) ==
    [c \in DOMAIN mask |-> IF c \in ann.mask THEN LabelValue(ann, isTest, stp) ELSE mask[c]]

\* one pass of the loop body: np.maximum(mask, annToMask(ann) * label)
Combine(mask, ann, isTest, stp) ==
    [c \in DOMAIN mask |-> Max(mask[c], AnnToMask(ann, c) * LabelValue(ann, isTest, stp))]

\* the loop over anns from position i, starting from mask
RECURSIVE BuildMask(_, _, _, _, _)
BuildMask(anns, i, mask, isTest, stp) ==
    IF i > Len(anns) THEN mask
    ELSE BuildMask(anns, i + 1, Combine(mask, anns[i], isTest, stp), isTest, stp)

\* the label map before resize_mask: np.zeros((w, h)) then the loop
LabelMap(h, w, anns, isTest, stp) ==
    BuildMask(anns, 1, [c \in Cells(h, w) |-> 0], isTest, stp)

\* self.transform applied to an array, when a transform is configured
Transformed(a, tr) == IF tr THEN [a EXCEPT !.ops = @ \o <<"transform">>] ELSE a

NoSample == [image |-> NoArray, channels |-> 0, mask |-> NoArray]

(* --------------------------- inputs ------------------------------------ *)
Sides == 1..MaxSide
MinDims == {None, 0, 2, 64}
MaxDims == {None, 0, 1, 3, 64}
MinScales == {NoScale, <<0, 1>>, <<3, 2>>, <<2, 1>>}
ModeArgs == Modes \cup {"other"}

Args(h, w, min_dim, max_dim, min_scale, mode) ==
    [h |-> h, w |-> w, min_dim |-> min_dim, max_dim |-> max_dim,
     min_scale |-> min_scale, mode |-> mode]

\* the worked examples of the documentation
Examples ==
    { Args(600, 800, 1024, 1024, <<0, 1>>, "square"),
      Args(100, 100, 64, None, NoScale, "pad64"),
      Args(513, 514, 512, None, NoScale, "crop") }

Inputs ==
    { Args(h, w, a, b, s, m) : h \in Sides, w \in Sides, a \in MinDims,
                               b \in MaxDims, s \in MinScales, m \in ModeArgs }
    \cup Examples

NoArgs == Args(0, 0, None, None, NoScale, "")

\* what the annotation store and the image files can hold
ItemSizes == {<<1, 2>>, <<2, 1>>}
Anns(h, w) == [mask : SUBSET Cells(h, w), category_id : 1..(NumClasses - 1)]
AnnSeqs(h, w) == UNION {[1..k -> Anns(h, w)] : k \in 0..MaxAnns}
Steps == {0, 2}
Indices == (-(MaxImages + 2)) .. (MaxImages + 1)

(* ------------------------------ state ---------------------------------- *)
VARIABLES
    pc,         \* "start", "resized", "masked", "raised", "ready", "returned"
    args,       \* the arguments of the resize_image call
    image,      \* resize_image's results, as the caller holds them
    window,
    scale,
    padding,
    crop,
    mask,       \* the result of the last resize_mask call
    nmask,      \* how many times resize_mask was applied to the geometry
    err,        \* the exception the last call raised, or "none"
    ids,        \* self.ids
    test,       \* self.test
    step,       \* self.step
    transform,  \* whether self.transform is set
    index,      \* the argument of the last __getitem__ call
    img_id,     \* the id it selected, or 0
    anns,       \* the annotations the store returned for it
    labelMap,   \* its local mask before resize_mask
    sample      \* what it returned

vars == <<pc, args, image, window, scale, padding, crop, mask, nmask, err,
          ids, test, step, transform, index, img_id, anns, labelMap, sample>>

geometry == <<args, image, window, scale, padding, crop, mask, nmask>>
dataset == <<ids, test, step, transform>>
item == <<index, img_id, anns, labelMap, sample>>

Init ==
    /\ pc = "start"
    /\ args = NoArgs
    /\ image = NoArray
    /\ window = NoWindow
    /\ scale = <<0, 1>>
    /\ padding = <<>>
    /\ crop = NoCrop
    /\ mask = NoArray
    /\ nmask = 0
    /\ err = "none"
    /\ ids = <<>>
    /\ test = FALSE
    /\ step = 0
    /\ transform = FALSE
    /\ index = 0
    /\ img_id = 0
    /\ anns = <<>>
    /\ labelMap = <<>>
    /\ sample = NoSample

\* the random draws a resize_image call can consume
Draws(a) ==
    LET s == ComputeScale(a.h, a.w, a.min_dim, a.max_dim, a.min_scale, a.mode)
        h == Scaled(a.h, s)
        w == Scaled(a.w, s)
    IN  IF a.mode = "crop" /\ a.min_dim # None
           /\ CropRange(h, a.min_dim) # {} /\ CropRange(w, a.min_dim) # {}
        THEN CropRange(h, a.min_dim) \X CropRange(w, a.min_dim)
        ELSE {<<0, 0>>}

\* a call of resize_image
CallResizeImage ==
    /\ pc = "start"
    /\ \E a \in Inputs : \E d \in Draws(a) :
         LET r == ResizeImage(a.h, a.w, a.min_dim, a.max_dim, a.min_scale, a.mode,
                              d[1], d[2])
         IN  /\ args' = a
             /\ image' = r.image
             /\ window' = r.window
             /\ scale' = r.scale
             /\ padding' = r.padding
             /\ crop' = r.crop
             /\ err' = r.err
             /\ pc' = IF r.err = "none" THEN "resized" ELSE "raised"
    /\ UNCHANGED <<mask, nmask, dataset, item>>

\* a call of resize_mask on a mask of the input image's shape, with the
\* scale, padding and crop the caller holds
CallResizeMask ==
    /\ pc \in {"resized", "masked"}
    /\ nmask < MaxMaskCalls
    /\ LET r == ResizeMask(args.h, args.w, scale, padding, crop)
       IN  /\ mask' = r.mask
           /\ padding' = r.padding
           /\ err' = r.err
           /\ pc' = IF r.err = "none" THEN "masked" ELSE "raised"
    /\ nmask' = nmask + 1
    /\ UNCHANGED <<args, image, window, scale, crop, dataset, item>>

\* CocoDataset(root, annot_path, step, transform, test)
Construct ==
    /\ pc = "start"
    /\ \E n \in 0..MaxImages : ids' = [i \in 1..n |-> i]
    /\ test' \in BOOLEAN
    /\ step' \in Steps
    /\ transform' \in BOOLEAN
    /\ pc' = "ready"
    /\ UNCHANGED <<geometry, err, item>>

\* dataset[i]; a call reads nothing an earlier call wrote, so one call per
\* behaviour reaches every outcome
GetItem ==
    /\ pc = "ready"
    /\ \E i \in Indices :
         LET pos == ListPos(Len(ids), i)
         IN  /\ index' = i
             /\ IF pos = 0
                THEN /\ err' = "IndexError"
                     /\ img_id' = 0
                     /\ anns' = <<>>
                     /\ labelMap' = <<>>
                     /\ sample' = NoSample
                ELSE \E size \in ItemSizes : \E as \in AnnSeqs(size[1], size[2]) :
                       LET r == ResizeImage(size[1], size[2], ItemMinDim, ItemMaxDim,
                                            <<0, 1>>, "square", 0, 0)
                           lm == LabelMap(size[1], size[2], as, test, step)
                           m == ResizeMask(size[1], size[2], r.scale, r.padding, r.crop)
                           ok == r.err = "none" /\ m.err = "none"
                       IN  /\ img_id' = ids[pos]
                           /\ anns' = as
                           /\ labelMap' = IF r.err = "none" THEN lm ELSE <<>>
                           /\ err' = IF r.err # "none" THEN r.err ELSE m.err
                           /\ sample' = IF ok
                                        THEN [image |-> Transformed(r.image, transform),
                                              channels |-> Channels,
                                              mask |-> Transformed(m.mask, transform)]
                                        ELSE NoSample
    /\ pc' = "returned"
    /\ UNCHANGED <<geometry, dataset>>

Next == CallResizeImage \/ CallResizeMask \/ Construct \/ GetItem

Spec == Init /\ [][Next]_vars

(* ------------------------------ properties ----------------------------- *)
\* resize_image has been called and its outcome is what the state holds
Called == pc \in {"resized", "raised"} /\ nmask = 0
\* resize_image returned a result
Succeeded == args # NoArgs /\ image # NoArray
\* the scaled sides, from the scale resize_image returned
ScaledH == Scaled(args.h, scale)
ScaledW == Scaled(args.w, scale)
\* the greatest member of a non-empty set of integers
SetMax(S) == CHOOSE x \in S : \A y \in S : y <= x

\* C1: when resize_image succeeds, the first resize_mask call on a mask of
\* the input's shape, with the returned scale, padding and crop, succeeds and
\* gives a mask of the resized image's spatial shape; so does __getitem__.
C1_MaskShapeMatchesImage ==
    /\ nmask = 1 => (pc = "masked" /\ err = "none" /\ mask.shape = image.shape)
    /\ (pc = "returned" /\ err = "none") => sample.mask.shape = sample.image.shape
C1_Witness ==
    /\ pc = "masked" /\ nmask = 1 /\ args.mode = "pad64"
    /\ scale # <<1, 1>> /\ ScaledW % PadMultiple # 0
    /\ mask.shape = image.shape

\* C2: in square mode with max_dim given, when the scaled sides are >= 1,
\* the image returned is max_dim x max_dim, the paddings are >= 0, the
\* top/left padding is floor((max_dim - side) / 2) and the bottom/right one
\* the rest; 600 x 800 with min_dim = max_dim = 1024 gives scale 1.28.
C2_SquareOutput ==
    (Called /\ args.mode = "square" /\ Truthy(args.max_dim)) =>
        /\ err \in {"none", "ShapeError"}
        /\ err = "none" =>
            /\ ScaledH >= 1 /\ ScaledW >= 1
            /\ image.shape = <<args.max_dim, args.max_dim>>
            /\ PadOk(padding)
            /\ padding[1][1] = (args.max_dim - ScaledH) \div 2
            /\ padding[1][2] = args.max_dim - ScaledH - padding[1][1]
            /\ padding[2][1] = (args.max_dim - ScaledW) \div 2
            /\ padding[2][2] = args.max_dim - ScaledW - padding[2][1]
        /\ (args.h = 600 /\ args.w = 800 /\ args.min_dim = 1024 /\ args.max_dim = 1024) =>
            (err = "none" /\ scale = <<32, 25>> /\ image.shape = <<1024, 1024>>)
C2_Witness ==
    /\ Called /\ args = Args(600, 800, 1024, 1024, <<0, 1>>, "square")
    /\ image.shape = <<1024, 1024>> /\ padding = <<<<128, 128>>, <<0, 0>>, <<0, 0>>>>

\* C3: mode "none" returns the input image unchanged, scale 1, the window
\* (0, 0, height, width), zero padding and no crop, whatever min_dim, max_dim
\* and min_scale are.
C3_NoneIsIdentity ==
    (Called /\ args.mode = "none") =>
        /\ err = "none"
        /\ image = Array(args.h, args.w, <<>>)
        /\ scale = <<1, 1>>
        /\ window = <<0, 0, args.h, args.w>>
        /\ padding = ZeroPadding
        /\ crop = NoCrop
C3_Witness ==
    /\ Called /\ args.mode = "none" /\ args.h # args.w
    /\ args.min_dim = 64 /\ args.max_dim = 1 /\ args.min_scale = <<2, 1>>
    /\ image = Array(args.h, args.w, <<>>)

\* C4: in pad64 mode with min_dim a multiple of 64, each side of the output
\* is the smallest multiple of 64 >= the scaled side, the padding before is
\* floor(difference / 2) and the padding after the rest (100 -> 128 with 14
\* and 14), and max_dim does not change the result.
C4_Pad64Output ==
    (Called /\ args.mode = "pad64" /\ args.min_dim # None
            /\ args.min_dim % PadMultiple = 0) =>
        /\ err = "none"
        /\ \A k \in 1..2 :
             LET side == IF k = 1 THEN ScaledH ELSE ScaledW
                 out == image.shape[k]
             IN  /\ out % PadMultiple = 0
                 /\ out >= side
                 /\ out - side < PadMultiple
                 /\ padding[k][1] = (out - side) \div 2
                 /\ padding[k][2] = out - side - padding[k][1]
        /\ args.h = 100 => (scale = <<1, 1>> /\ image.shape[1] = 128
                            /\ padding[1] = <<14, 14>>)
        /\ \A b \in MaxDims \cup {ItemMaxDim} :
             ResizeImage(args.h, args.w, args.min_dim, b, args.min_scale, "pad64", 0, 0)
               = Return(image, window, scale, padding, crop)
C4_Witness ==
    /\ Called /\ args.mode = "pad64" /\ args.h = 100 /\ args.min_dim = 64
    /\ image.shape = <<128, 128>> /\ padding[1] = <<14, 14>>

\* C5: in test mode each cell of the label map __getitem__ builds before
\* resizing holds the greatest category id among the annotations covering
\* the cell, and 0 when none covers it, whatever the annotations' order.
C5_LabelIsMaxCategory ==
    (pc = "returned" /\ test /\ err = "none") =>
        \A c \in DOMAIN labelMap :
            labelMap[c] =
                SetMax({0} \cup {anns[i].category_id : i \in {j \in 1..Len(anns) : c \in anns[j].mask}})
C5_Witness ==
    /\ pc = "returned" /\ test /\ err = "none"
    /\ Len(anns) = 2
    /\ anns[1] = [mask |-> {<<1, 1>>, <<1, 2>>}, category_id |-> 3]
    /\ anns[2] = [mask |-> {<<1, 2>>}, category_id |-> 2]
    /\ labelMap[<<1, 1>>] = 3 /\ labelMap[<<1, 2>>] = 3

\* C6: in crop mode every crop returned has its origin (y, x) with
\* 0 <= y <= h - min_dim and 0 <= x <= w - min_dim, h and w the scaled sides,
\* and size min_dim x min_dim, and the window is (0, 0, min_dim, min_dim).
C6_CropInsideImage ==
    (Called /\ args.mode = "crop" /\ err = "none") =>
        /\ ScaledH >= args.min_dim /\ ScaledW >= args.min_dim
        /\ Len(crop) = 4
        /\ 0 <= crop[1] /\ crop[1] <= ScaledH - args.min_dim
        /\ 0 <= crop[2] /\ crop[2] <= ScaledW - args.min_dim
        /\ crop[3] = args.min_dim /\ crop[4] = args.min_dim
        /\ image.shape = <<args.min_dim, args.min_dim>>
        /\ window = <<0, 0, args.min_dim, args.min_dim>>
C6_Witness ==
    /\ Called /\ args.mode = "crop" /\ err = "none" /\ args.min_dim = 512
    /\ crop = <<1, 2, 512, 512>>

\* C7: resize_image raises and returns nothing when the mode is not one of
\* none, square, pad64, crop, and when the mode is pad64 and min_dim is not a
\* multiple of 64; the mode error and the assertion are raised in no other
\* configuration.
C7_InvalidConfigurationRaises ==
    Called =>
        /\ args.mode \notin Modes => (err = "ModeNotSupported" /\ image = NoArray)
        /\ (args.mode = "pad64" /\ (args.min_dim = None \/ args.min_dim % PadMultiple # 0))
             => (err \in {"AssertionError", "TypeError"} /\ image = NoArray)
        /\ err = "ModeNotSupported" => args.mode \notin Modes
        /\ err = "AssertionError" =>
             (args.mode = "pad64" /\ args.min_dim # None /\ args.min_dim % PadMultiple # 0)
C7_Witness ==
    /\ Called /\ args.mode = "pad64" /\ args.min_dim = 2 /\ err = "AssertionError"
    /\ pc = "raised"

\* C8 as stated: __getitem__ raises and returns no sample for every index
\* outside 0 .. len - 1.
C8_EveryIndexOutsideRaises ==
    (pc = "returned" /\ (index < 0 \/ index >= Len(ids))) =>
        (err = "IndexError" /\ sample = NoSample)
\* C8 amended: __getitem__ raises IndexError and returns no sample for every
\* index >= len or < -len; an index in -len .. -1 selects ids[len + index].
C8_IndexOutOfRangeRaises ==
    pc = "returned" =>
        /\ (index >= Len(ids) \/ index < -Len(ids)) =>
             (err = "IndexError" /\ sample = NoSample /\ img_id = 0)
        /\ (-Len(ids) <= index /\ index < 0) =>
             (err = "none" /\ sample # NoSample /\ img_id = ids[Len(ids) + index + 1])
C8_Witness ==
    /\ pc = "returned" /\ Len(ids) = 1 /\ index = -2
    /\ err = "IndexError" /\ sample = NoSample

C10_PaddingLeftUnchanged ==
    (nmask >= 1 /\ crop = NoCrop) =>
        (Len(padding) = 3 /\ err = "none" /\ mask.shape = image.shape)

====
